---- MODULE Spec2Model ----
(***************************************************************************)
(* Nitrogen tank ledger (db.py): the tanks table, the movements table and  *)
(* the operations create_movement (record_movement in the specification)   *)
(* and recompute_tank_states_from_history, driven by the Streamlit page.   *)
(*                                                                         *)
(* Text values (Optional[str]) are sequences of one-character strings;     *)
(* Python's None is the one-element sequence None, whose element is not a  *)
(* character.  Calendar dates are day numbers.                             *)
(***************************************************************************)
EXTENDS Integers, Sequences, FiniteSets, TLC

VARIABLES tanks, movements, today, pc, call, sessions

vars == <<tanks, movements, today, pc, call, sessions>>

----------------------------------------------------------------------------
(* Bounds *)

\* the calendar (date.today()) runs from day 0 to day MaxDay
MaxDay == 1

\* at most MaxMoves rows are inserted into the movements table
MaxMoves == 3

----------------------------------------------------------------------------
(* Text *)

None == <<"None">>

Digits == {"0", "1", "2", "3", "4", "5", "6", "7", "8", "9"}

Whitespace == {" "}

\* Python truthiness of an Optional[str]: None and "" are falsy
Falsy(s) == s = None \/ s = <<>>

\* x or ""
OrEmpty(s) == IF Falsy(s) THEN <<>> ELSE s

\* x or None
OrNone(s) == IF Falsy(s) THEN None ELSE s

RECURSIVE LStrip(_)
LStrip(s) ==
    IF s # <<>> /\ Head(s) \in Whitespace THEN LStrip(Tail(s)) ELSE s

RECURSIVE RStrip(_)
RStrip(s) ==
    IF s # <<>> /\ s[Len(s)] \in Whitespace
    THEN RStrip(SubSeq(s, 1, Len(s) - 1))
    ELSE s

\* str.strip()
Strip(s) == RStrip(LStrip(s))

\* the number of digits the pattern \d{5} asks for
SmtLen == 5

\* FullMatchDigits with re.match in place of re.fullmatch: a prefix is enough
FullMatchDigits_Prefix(s) ==
    Len(s) >= SmtLen /\ \A i \in 1..SmtLen : s[i] \in Digits

\* re.fullmatch(r"\d{5}", s)
FullMatchDigits(s) == Len(s) = SmtLen /\ \A i \in 1..Len(s) : s[i] \in Digits

\* the text _validate_smt_required_5_digits works on: (smt_number or "").strip()
SmtText(smt_number) == Strip(OrEmpty(smt_number))

\* _validate_smt_required_5_digits raises exactly when this is FALSE
SmtValid(smt_number) == FullMatchDigits(SmtText(smt_number))

----------------------------------------------------------------------------
(* Tables *)

\* SERIALES_PERSONALIZADOS, cut to two tanks
Serials == {"T1", "T2"}

\* Tank.last_movement_date = None
NoDate == -1

\* Tank(serial=s, status="in", last_movement_date=None)
NewTank == [status |-> "in", last_movement_date |-> NoDate]

\* the rows of one tank
MovementsOf(movs, serial) == {m \in movs : m.serial = serial}

\* SortsBefore with order_by(Movement.id.desc()) alone
SortsBefore_ById(a, b) == a.id > b.id

\* order_by(Movement.movement_date.desc(), Movement.id.desc()): a sorts before b
SortsBefore(a, b) ==
    \/ a.movement_date > b.movement_date
    \/ a.movement_date = b.movement_date /\ a.id > b.id

\* .filter(Movement.serial == serial).order_by(...).first(), as a set of 0 or 1 rows
LastMovement(movs, serial) ==
    {m \in MovementsOf(movs, serial) :
        \A o \in MovementsOf(movs, serial) : o = m \/ SortsBefore(m, o)}

\* the autoincrement primary key of the next inserted row
MaxId(movs) == IF movs = {} THEN 0 ELSE CHOOSE i \in {m.id : m \in movs} :
                                          \A m \in movs : m.id <= i

NextId(movs) == MaxId(movs) + 1

----------------------------------------------------------------------------
(* create_movement *)

CallArgs(serial, movement_type, movement_date, project, engineer, contractor, smt_number) ==
    [serial |-> serial, movement_type |-> movement_type,
     movement_date |-> movement_date, project |-> project,
     engineer |-> engineer, contractor |-> contractor,
     smt_number |-> smt_number]

\* session.get(Tank, serial): the loaded row, as a set of 0 or 1 rows
GetTank(tks, serial) ==
    IF serial \in DOMAIN tks THEN {tks[serial]} ELSE {}

\* FutureDate off by one day: tomorrow passes
FutureDate_Tomorrow(a, now) == a.movement_date > now + 1

\* movement_date > date.today()
FutureDate(a, now) == a.movement_date > now

\* DispatchRaises without the contractor in the required fields
DispatchRaises_NoContractor(tank, a) ==
    IF tank.status = "out" THEN "AlreadyOut"
    ELSE IF Falsy(a.project) \/ Falsy(a.engineer)
         THEN "MissingDispatchFields"
         ELSE ""

\* DispatchRaises with the two checks in the other order
DispatchRaises_FieldsFirst(tank, a) ==
    IF Falsy(a.project) \/ Falsy(a.engineer) \/ Falsy(a.contractor)
    THEN "MissingDispatchFields"
    ELSE IF tank.status = "out" THEN "AlreadyOut" ELSE ""

\* the raise statement the dispatch branch reaches, "" when it reaches none
DispatchRaises(tank, a) ==
    IF tank.status = "out" THEN "AlreadyOut"
    ELSE IF Falsy(a.project) \/ Falsy(a.engineer) \/ Falsy(a.contractor)
         THEN "MissingDispatchFields"
         ELSE ""

\* ReceiptRaises without the test of tank.status
ReceiptRaises_Unchecked(tank, a) == ""

\* the raise statement the receipt branch reaches, "" when it reaches none
ReceiptRaises(tank, a) ==
    IF tank.status = "in" THEN "AlreadyIn" ELSE ""

\* Raises with the movement type tested before the tank is loaded
Raises_TypeFirst(got, a, now) ==
    IF a.movement_type \notin {"dispatch", "receipt"} THEN "InvalidType"
    ELSE IF got = {} THEN "NotFound"
    ELSE IF FutureDate(a, now) THEN "FutureDate"
    ELSE IF ~SmtValid(a.smt_number) THEN "BadSmt"
    ELSE LET tank == CHOOSE t \in got : TRUE IN
         IF a.movement_type = "dispatch" THEN DispatchRaises(tank, a)
         ELSE ReceiptRaises(tank, a)

\* the raise statement create_movement reaches with the loaded row `got`
\* (0 or 1 rows), "" when it reaches none
Raises(got, a, now) ==
    IF got = {} THEN "NotFound"
    ELSE IF FutureDate(a, now) THEN "FutureDate"
    ELSE IF ~SmtValid(a.smt_number) THEN "BadSmt"
    ELSE LET tank == CHOOSE t \in got : TRUE IN
         IF a.movement_type = "dispatch" THEN DispatchRaises(tank, a)
         ELSE IF a.movement_type = "receipt" THEN ReceiptRaises(tank, a)
         ELSE "InvalidType"

\* NewStatus with the receipt branch assigning "out" too
NewStatus_AlwaysOut(a) == "out"

\* tank.status after the branch taken
NewStatus(a) == IF a.movement_type = "dispatch" THEN "out" ELSE "in"

\* MutatedTank without `tank.last_movement_date = movement_date`
MutatedTank_NoDate(a) ==
    [status |-> NewStatus(a), last_movement_date |-> NoDate]

\* the loaded Tank object after lines 157-167
MutatedTank(a) ==
    [status |-> NewStatus(a), last_movement_date |-> a.movement_date]

\* the UPDATE the flush emits: only the attributes whose value differs from
\* the loaded one are written over the stored row
FlushTank(stored, loaded, mutated) ==
    [status |-> IF mutated.status # loaded.status
                THEN mutated.status ELSE stored.status,
     last_movement_date |->
                IF mutated.last_movement_date # loaded.last_movement_date
                THEN mutated.last_movement_date ELSE stored.last_movement_date]

\* Movement(...), with the id the INSERT assigns
NewMovement(movs, a, now) ==
    [id |-> NextId(movs),
     serial |-> a.serial,
     movement_type |-> a.movement_type,
     movement_date |-> a.movement_date,
     project |-> OrNone(a.project),
     responsible_engineer |-> OrNone(a.engineer),
     responsible_contractor |-> OrNone(a.contractor),
     smt_number |-> SmtText(a.smt_number),
     created_at |-> now]

\* session.commit(): the tanks table after the flush
CommitTanks(tks, loaded, a) ==
    [tks EXCEPT ![a.serial] = FlushTank(tks[a.serial], loaded, MutatedTank(a))]

\* CommitMovements with the tank's row merged instead of added: the new
\* movement takes the place of the tank's earlier ones
CommitMovements_Merge(movs, a, now) ==
    {m \in movs : m.serial # a.serial} \cup {NewMovement(movs, a, now)}

\* session.commit(): the movements table after the flush
CommitMovements(movs, a, now) == movs \cup {NewMovement(movs, a, now)}

\* TanksAfter with tank.status assigned before the dispatch fields are
\* checked and flushed when the session closes
TanksAfter_FlushOnClose(tks, got, a, now) ==
    IF Raises(got, a, now) \in {"", "MissingDispatchFields"}
    THEN CommitTanks(tks, CHOOSE t \in got : TRUE, a)
    ELSE tks

\* the tanks table when the call is over: the commit is reached only when
\* nothing was raised, and session.close() drops what was not committed
TanksAfter(tks, got, a, now) ==
    IF Raises(got, a, now) = ""
    THEN CommitTanks(tks, CHOOSE t \in got : TRUE, a)
    ELSE tks

\* MovementsAfter with the INSERT left out of the transaction: the tank is
\* updated and no row is stored
MovementsAfter_NoInsert(movs, got, a, now) == movs

\* the movements table when the call is over
MovementsAfter(movs, got, a, now) ==
    IF Raises(got, a, now) = "" THEN CommitMovements(movs, a, now) ELSE movs

NoArgs == CallArgs("", "", 0, None, None, None, None)

\* no call has returned since the page last ran
NoCall ==
    [op |-> "none", prev |-> <<"none", 0>>, args |-> NoArgs, err |-> "",
     result |-> {}, updated |-> 0, rows |-> <<>>, serials |-> {},
     pre_tanks |-> <<>>, pre_movements |-> {}]

\* one call of create_movement by the page, start to return
CreateMovement(serial, movement_type, movement_date, project, engineer, contractor, smt_number) ==
    LET a == CallArgs(serial, movement_type, movement_date, project,
                      engineer, contractor, smt_number)
        got == GetTank(tanks, serial)
        err == Raises(got, a, today)
    IN  /\ pc = "idle"
        /\ err = "" => Cardinality(movements) < MaxMoves
        /\ pc' = "returned"
        /\ tanks' = TanksAfter(tanks, got, a, today)
        /\ movements' = MovementsAfter(movements, got, a, today)
        /\ call' = [op |-> "create_movement",
                    prev |-> <<call.op, call.updated>>, args |-> a,
                    err |-> err, result |-> movements' \ movements,
                    updated |-> 0, rows |-> <<>>, serials |-> {},
                    pre_tanks |-> tanks, pre_movements |-> movements]
        /\ UNCHANGED <<today, sessions>>

\* the page shows the outcome and the script runs again
Rerun ==
    /\ pc = "returned"
    /\ pc' = "idle"
    /\ call' = NoCall
    /\ UNCHANGED <<tanks, movements, today, sessions>>

\* midnight passes: date.today() moves on
Tick ==
    /\ pc = "idle"
    /\ today < MaxDay
    /\ today' = today + 1
    /\ UNCHANGED <<tanks, movements, pc, call, sessions>>

----------------------------------------------------------------------------
(* recompute_tank_states_from_history *)

\* new_status, new_date of one tank given its last movement (0 or 1 rows)
RecomputedTank(t, last) ==
    IF last = {} THEN t
    ELSE LET m == CHOOSE x \in last : TRUE IN
         [status |-> IF m.movement_type = "dispatch" THEN "out" ELSE "in",
          last_movement_date |-> m.movement_date]

\* RecomputeChanged with `updated += 1` outside the comparison: every tank
\* that has a movement is assigned and counted
RecomputeChanged_All(tks, movs) ==
    {s \in DOMAIN tks : LastMovement(movs, s) # {}}

\* the rows the loop assigns to: stored state differs from the recomputed one
RecomputeChanged(tks, movs) ==
    {s \in DOMAIN tks :
        LET n == RecomputedTank(tks[s], LastMovement(movs, s)) IN
        /\ LastMovement(movs, s) # {}
        /\ (tks[s].status # n.status
            \/ tks[s].last_movement_date # n.last_movement_date)}

\* the tanks table after the loop and the commit
RecomputeTanks(tks, movs) ==
    [s \in DOMAIN tks |->
        IF s \in RecomputeChanged(tks, movs)
        THEN RecomputedTank(tks[s], LastMovement(movs, s))
        ELSE tks[s]]

\* one call of recompute_tank_states_from_history; its caller may call it
\* again as soon as it has returned
Recompute ==
    /\ pc = "idle" \/ (pc = "returned" /\ call.op = "recompute")
    /\ pc' = "returned"
    /\ tanks' = RecomputeTanks(tanks, movements)
    /\ call' = [op |-> "recompute", prev |-> <<call.op, call.updated>>, args |-> NoArgs,
                err |-> "", result |-> {},
                updated |-> Cardinality(RecomputeChanged(tanks, movements)),
                rows |-> <<>>, serials |-> {},
                pre_tanks |-> tanks, pre_movements |-> movements]
    /\ UNCHANGED <<movements, today, sessions>>

----------------------------------------------------------------------------
(* Input values *)

Atlas == <<"A", "t", "l", "a", "s">>
Jane == <<"J", "a", "n", "e">>
ACME == <<"A", "C", "M", "E">>
Smt00123 == <<"0", "0", "1", "2", "3">>
Smt1234 == <<"1", "2", "3", "4">>
SmtAbcde == <<"a", "b", "c", "d", "e">>
Smt123456 == <<"1", "2", "3", "4", "5", "6">>
SmtPadded == <<" ", "0", "0", "1", "2", "3", " ">>

\* a serial no tank has
UnknownSerial == "T9"

TypeInputs == {"dispatch", "receipt", "transfer"}

\* the smt_number values of the specification's examples, None and "" among
\* them, and one with surrounding blanks
SmtInputs == {Smt1234, SmtAbcde, Smt123456, <<>>, None, Smt00123, SmtPadded}

\* project, engineer, contractor: absent, empty or given
FieldInputs(given) == {None, <<>>, given}

----------------------------------------------------------------------------
(* Spec: one user records movements of two tanks, with any dates *)

Procs == {1, 2}

IdleSession ==
    [pc |-> "idle", args |-> NoArgs, got |-> {}, err |-> "", result |-> {}]

Init ==
    /\ tanks = [s \in Serials |-> NewTank]
    /\ movements = {}
    /\ today = 0
    /\ pc = "idle"
    /\ call = NoCall
    /\ sessions = [p \in Procs |-> IdleSession]

Next ==
    \/ \E s \in Serials \cup {UnknownSerial}, t \in TypeInputs,
          d \in 0..(today + 1), p \in {None, Atlas} :
            CreateMovement(s, t, d, p, Jane, ACME, Smt00123)
    \/ Rerun
    \/ Tick

Spec == Init /\ [][Next]_vars

----------------------------------------------------------------------------
(* SpecInputs: one user, one tank, every kind of argument value *)

NextInputs ==
    \/ \E t \in {"dispatch", "receipt"}, d \in {today, today + 1},
          p \in FieldInputs(Atlas), e \in FieldInputs(Jane),
          c \in FieldInputs(ACME) :
            CreateMovement("T1", t, d, p, e, c, Smt00123)
    \/ \E s \in {"T1", UnknownSerial}, t \in TypeInputs, d \in {today, today + 1},
          f \in {<<None, None, None>>, <<Atlas, Jane, ACME>>},
          smt \in SmtInputs :
            CreateMovement(s, t, d, f[1], f[2], f[3], smt)
    \/ Rerun
    \/ Tick

SpecInputs == Init /\ [][NextInputs]_vars

----------------------------------------------------------------------------
(* SpecDrift: the reconciler run on any stored state *)

\* at most MaxRows rows are in the movements table when the reconciler starts
MaxRows == 2

DriftRow(i, serial, movement_type, movement_date) ==
    [id |-> i, serial |-> serial, movement_type |-> movement_type,
     movement_date |-> movement_date, project |-> None,
     responsible_engineer |-> None, responsible_contractor |-> None,
     smt_number |-> Smt00123, created_at |-> MaxDay]

InitDrift ==
    /\ tanks \in [Serials -> [status : {"in", "out"},
                              last_movement_date : {NoDate} \cup (0..MaxDay)]]
    /\ \E n \in 0..MaxRows :
         \E rows \in [1..n -> Serials \X {"dispatch", "receipt"} \X (0..MaxDay)] :
            movements = {DriftRow(i, rows[i][1], rows[i][2], rows[i][3]) : i \in 1..n}
    /\ today = MaxDay
    /\ pc = "idle"
    /\ call = NoCall
    /\ sessions = [p \in Procs |-> IdleSession]

NextDrift ==
    \/ Recompute
    \/ Rerun

SpecDrift == InitDrift /\ [][NextDrift]_vars

----------------------------------------------------------------------------
(* SpecConc: two page sessions call create_movement at the same time.  Each  *)
(* call has its own Session; the store commits each call's writes as one     *)
(* transaction and takes no lock between a call's read and its commit.       *)

\* session = SessionLocal(); tank = session.get(Tank, serial)
CmBegin(p, a) ==
    /\ sessions[p].pc = "idle"
    /\ sessions' = [sessions EXCEPT ![p] =
                      [pc |-> "loaded", args |-> a,
                       got |-> GetTank(tanks, a.serial),
                       err |-> "", result |-> {}]]
    /\ UNCHANGED <<tanks, movements, today, pc, call>>

\* the checks on the loaded row, then session.commit() or the raise
CmEnd(p) ==
    LET ses == sessions[p]
        err == Raises(ses.got, ses.args, today)
    IN  /\ ses.pc = "loaded"
        /\ err = "" => Cardinality(movements) < MaxMoves
        /\ tanks' = TanksAfter(tanks, ses.got, ses.args, today)
        /\ movements' = MovementsAfter(movements, ses.got, ses.args, today)
        /\ sessions' = [sessions EXCEPT ![p] =
                          [ses EXCEPT !.pc = "done", !.err = err,
                                      !.result = movements' \ movements]]
        /\ UNCHANGED <<today, pc, call>>

\* session.close(); the caller's page runs again
CmClose(p) ==
    /\ sessions[p].pc = "done"
    /\ sessions' = [sessions EXCEPT ![p] = IdleSession]
    /\ UNCHANGED <<tanks, movements, today, pc, call>>

NextConc ==
    \/ \E p \in Procs, s \in Serials, t \in {"dispatch", "receipt"} :
          CmBegin(p, CallArgs(s, t, today, Atlas, Jane, ACME, Smt00123))
    \/ \E p \in Procs : CmEnd(p)
    \/ \E p \in Procs : CmClose(p)
    \/ Tick

SpecConc == Init /\ [][NextConc]_vars

----------------------------------------------------------------------------
(* Ordering of text and of result lists *)

\* the characters of the names used, in code point order
CodePoints ==
    <<" ", "(", ")", "A", "B", "C", "E", "J", "M",
      "a", "b", "e", "g", "i", "l", "n", "o", "r", "s", "t">>

CodePoint(c) == CHOOSE i \in 1..Len(CodePoints) : CodePoints[i] = c

\* Python's a < b on str
RECURSIVE StrLess(_, _)
StrLess(a, b) ==
    IF b = <<>> THEN FALSE
    ELSE IF a = <<>> THEN TRUE
    ELSE IF Head(a) = Head(b) THEN StrLess(Tail(a), Tail(b))
    ELSE CodePoint(Head(a)) < CodePoint(Head(b))

\* the elements of S as a list in the order `before`, a set of pairs <<a, b>>
\* with a sorting before b
SortedBy(S, before) ==
    CHOOSE q \in [1..Cardinality(S) -> S] :
        \A i \in 1..Cardinality(S), j \in 1..Cardinality(S) :
            i < j => <<q[i], q[j]>> \in before

----------------------------------------------------------------------------
(* seed_tanks, get_all_tanks, get_movements *)

\* SeededTanks without the `if not session.get(Tank, s)` test: every given
\* serial is written as a new tank
SeededTanks_Overwrite(tks, serials) ==
    [s \in DOMAIN tks \cup serials |->
        IF s \in serials THEN NewTank ELSE tks[s]]

\* the tanks table after seed_tanks(serials)
SeededTanks(tks, serials) ==
    [s \in DOMAIN tks \cup serials |->
        IF s \in DOMAIN tks THEN tks[s] ELSE NewTank]

\* one call of seed_tanks; the page calls it again, with the same serials,
\* each time it starts
SeedTanks(serials) ==
    /\ \/ pc = "idle"
       \/ pc = "returned" /\ call.op = "seed_tanks" /\ call.serials = serials
    /\ pc' = "returned"
    /\ tanks' = SeededTanks(tanks, serials)
    /\ call' = [op |-> "seed_tanks", prev |-> <<call.op, call.updated>>,
                args |-> NoArgs, err |-> "", result |-> {}, updated |-> 0,
                rows |-> <<>>, serials |-> serials,
                pre_tanks |-> tanks, pre_movements |-> movements]
    /\ UNCHANGED <<movements, today, sessions>>

\* the serials in the order of ORDER BY serial
SerialOrder == <<"T1", "T2", "T3", "T9">>

SerialLess(a, b) ==
    \E i \in 1..Len(SerialOrder), j \in 1..Len(SerialOrder) :
        /\ SerialOrder[i] = a
        /\ SerialOrder[j] = b
        /\ i < j

\* a Tank object as the caller sees it
TankRow(tks, s) ==
    [serial |-> s, status |-> tks[s].status,
     last_movement_date |-> tks[s].last_movement_date]

TankRowLess(a, b) == SerialLess(a.serial, b.serial)

\* session.query(Tank).order_by(Tank.serial).all()
AllTanks(tks) ==
    LET rows == {TankRow(tks, s) : s \in DOMAIN tks} IN
    SortedBy(rows, {r \in rows \X rows : TankRowLess(r[1], r[2])})

\* a call that reads and returns `rows`
ReadCall(op, serial, rows) ==
    /\ pc = "idle"
    /\ pc' = "returned"
    /\ call' = [op |-> op, prev |-> <<call.op, call.updated>>,
                args |-> [NoArgs EXCEPT !.serial = serial], err |-> "",
                result |-> {}, updated |-> 0, rows |-> rows, serials |-> {},
                pre_tanks |-> tanks, pre_movements |-> movements]
    /\ UNCHANGED <<tanks, movements, today, sessions>>

\* one call of get_all_tanks
ListTanks == ReadCall("get_all_tanks", "", AllTanks(tanks))

\* get_movements(None) and get_movements("") apply no filter
NoSerial == ""

\* q.filter(...).order_by(movement_date.desc(), id.desc()).all()
MovementsListed(movs, serial) ==
    LET rows == IF serial # NoSerial THEN MovementsOf(movs, serial) ELSE movs
    IN  SortedBy(rows, {r \in rows \X rows : SortsBefore(r[1], r[2])})

\* one call of get_movements
ListMovements(serial) ==
    ReadCall("get_movements", serial, MovementsListed(movements, serial))

----------------------------------------------------------------------------
(* summary_current_out_by_engineer *)

\* "(sin ingeniero)"
NoEngineer ==
    <<"(", "s", "i", "n", " ", "i", "n", "g", "e", "n", "i", "e", "r", "o", ")">>

\* session.query(Tank).filter(Tank.status == "out").all(), as serials
OutTanks(tks) == {s \in DOMAIN tks : tks[s].status = "out"}

\* eng = last.responsible_engineer or "(sin ingeniero)"
EngineerLabel(m) ==
    IF Falsy(m.responsible_engineer) THEN NoEngineer ELSE m.responsible_engineer

\* the tanks the loop counts, given what the queries returned: `out` the OUT
\* tanks, last[s] the first row of tank s (0 or 1 rows)
CountedTanks(out, last) ==
    {s \in out : \E m \in last[s] : m.movement_type = "dispatch"}

\* counts: engineer -> number of counted tanks
EngineerCounts(out, last) ==
    LET eng(s) == EngineerLabel(CHOOSE m \in last[s] : TRUE)
        counted == CountedTanks(out, last)
    IN  [e \in {eng(s) : s \in counted} |->
            Cardinality({s \in counted : eng(s) = e})]

\* SummaryLess with key=lambda x: x[0]: by engineer name only
SummaryLess_ByName(a, b) ==
    StrLess(a.responsible_engineer, b.responsible_engineer)

\* key=lambda x: (-x[1], x[0])
SummaryLess(a, b) ==
    \/ a.count > b.count
    \/ a.count = b.count /\ StrLess(a.responsible_engineer, b.responsible_engineer)

\* the returned list
SummaryRows(out, last) ==
    LET counts == EngineerCounts(out, last)
        rows == {[responsible_engineer |-> e, count |-> counts[e]] :
                    e \in DOMAIN counts}
    IN  SortedBy(rows, {r \in rows \X rows : SummaryLess(r[1], r[2])})

\* what the per-tank queries return when all read the same stored state
LastOfEach(out, movs) == [s \in out |-> LastMovement(movs, s)]

\* one call of summary_current_out_by_engineer by the page
Summary ==
    ReadCall("summary_current_out_by_engineer", "",
             SummaryRows(OutTanks(tanks), LastOfEach(OutTanks(tanks), movements)))

----------------------------------------------------------------------------
(* SpecOps: one user calls every operation; three tanks, two engineers, and  *)
(* possibly a dispatch row stored without an engineer (the column is         *)
(* nullable)                                                                 *)

Bob == <<"B", "o", "b">>

\* a stored dispatch of T2 with responsible_engineer NULL
LegacyRow ==
    [id |-> 1, serial |-> "T2", movement_type |-> "dispatch",
     movement_date |-> 0, project |-> Atlas, responsible_engineer |-> None,
     responsible_contractor |-> None, smt_number |-> Smt00123,
     created_at |-> 0]

InitOps ==
    /\ \/ /\ tanks = [s \in Serials |-> NewTank]
          /\ movements = {}
       \/ /\ tanks = [s \in Serials |->
                        IF s = "T2"
                        THEN [status |-> "out", last_movement_date |-> 0]
                        ELSE NewTank]
          /\ movements = {LegacyRow}
    /\ today = 1
    /\ pc = "idle"
    /\ call = NoCall
    /\ sessions = [p \in Procs |-> IdleSession]

NextOps ==
    \/ \E s \in {"T1", "T2", "T3"}, t \in {"dispatch", "receipt"},
          d \in 0..today, e \in {Jane, Bob} :
            CreateMovement(s, t, d, Atlas, e, ACME, Smt00123)
    \/ Recompute
    \/ \E serials \in {{"T3"}, {"T1", "T2", "T3"}} : SeedTanks(serials)
    \/ ListTanks
    \/ \E s \in {NoSerial, "T1", "T3"} : ListMovements(s)
    \/ Summary
    \/ Rerun

SpecOps == InitOps /\ [][NextOps]_vars

----------------------------------------------------------------------------
(* SpecRead: the page of one user reads while the session of another records *)
(* movements.  Every SELECT sees the rows committed when it runs; the        *)
(* summary is several SELECTs, and a commit can fall between two of them.    *)
(* In `call`, while the summary runs: pre_tanks and pre_movements are the    *)
(* tables when the OUT tanks were read, serials the OUT tanks not yet        *)
(* queried, result the rows the per-tank queries returned.                   *)

\* out_tanks = session.query(Tank).filter(Tank.status == "out").all()
SummaryBegin ==
    /\ pc = "idle"
    /\ pc' = "reading"
    /\ call' = [op |-> "summary_current_out_by_engineer",
                prev |-> <<call.op, call.updated>>, args |-> NoArgs,
                err |-> "", result |-> {}, updated |-> 0, rows |-> <<>>,
                serials |-> OutTanks(tanks),
                pre_tanks |-> tanks, pre_movements |-> movements]
    /\ UNCHANGED <<tanks, movements, today, sessions>>

\* one turn of the loop: last = ...first() for tank s
SummaryStep(s) ==
    /\ pc = "reading"
    /\ s \in call.serials
    /\ call' = [call EXCEPT !.serials = @ \ {s},
                            !.result = @ \cup LastMovement(movements, s)]
    /\ UNCHANGED <<tanks, movements, today, pc, sessions>>

\* the loop is over: sort and return
SummaryEnd ==
    LET out == OutTanks(call.pre_tanks)
        last == [s \in out |-> {m \in call.result : m.serial = s}]
    IN  /\ pc = "reading"
        /\ call.serials = {}
        /\ pc' = "returned"
        /\ call' = [call EXCEPT !.rows = SummaryRows(out, last)]
        /\ UNCHANGED <<tanks, movements, today, sessions>>

NextRead ==
    \/ \E s \in Serials, t \in {"dispatch", "receipt"}, e \in {Jane, Bob} :
          CmBegin(1, CallArgs(s, t, today, Atlas, e, ACME, Smt00123))
    \/ CmEnd(1)
    \/ CmClose(1)
    \/ SummaryBegin
    \/ \E s \in Serials : SummaryStep(s)
    \/ SummaryEnd
    \/ ListTanks
    \/ \E s \in {NoSerial, "T1"} : ListMovements(s)
    \/ Rerun

SpecRead == Init /\ [][NextRead]_vars

----------------------------------------------------------------------------
(* The error kinds of the specification, by the raise statement reached     *)
(* (each is a ValueError in db.py, told apart by its message)               *)

NotFoundError == {"NotFound"}
ValidationError == {"FutureDate", "BadSmt", "MissingDispatchFields", "InvalidType"}
ConflictError == {"AlreadyOut", "AlreadyIn"}

\* a call of create_movement has just returned or raised
Called == pc = "returned" /\ call.op = "create_movement"

\* ... and it named a tank that exists
CalledOnTank == Called /\ call.args.serial \in DOMAIN call.pre_tanks

\* that tank's status when the call started
PreStatus == call.pre_tanks[call.args.serial].status

\* the most recent movement of a tank: movement_date descending, then id
\* descending (a set of 0 or 1 rows)
MostRecent(movs, serial) ==
    {m \in movs :
        /\ m.serial = serial
        /\ \A o \in movs :
              o.serial = serial =>
                 \/ o.movement_date < m.movement_date
                 \/ o.movement_date = m.movement_date /\ o.id <= m.id}

----------------------------------------------------------------------------
(* C1 *)

\* C1: for every tank, status is OUT iff its most recent movement (date
\* descending, then id descending) is a DISPATCH, and IN if that movement is
\* a RECEIPT or the tank has no movement.  (Spec)
C1_StatusFollowsMostRecent ==
    \A s \in DOMAIN tanks :
        /\ tanks[s].status = "out"
             <=> \E m \in MostRecent(movements, s) : m.movement_type = "dispatch"
        /\ (\A m \in MostRecent(movements, s) : m.movement_type = "receipt")
             => tanks[s].status = "in"

----------------------------------------------------------------------------
(* C2 *)

\* the call asks for the transition the tank's status forbids
ForbiddenTransition ==
    /\ CalledOnTank
    /\ \/ call.args.movement_type = "dispatch" /\ PreStatus = "out"
       \/ call.args.movement_type = "receipt" /\ PreStatus = "in"

\* the call recorded nothing and left every tank as it was
NothingRecorded ==
    /\ movements = call.pre_movements
    /\ tanks = call.pre_tanks
    /\ call.result = {}

\* C2 as stated: a DISPATCH of an existing OUT tank and a RECEIPT of an existing
\* IN tank fail with ConflictError, nothing is recorded and the status stays.
\* (SpecInputs)
C2_ForbiddenTransitionIsConflict ==
    ForbiddenTransition => call.err \in ConflictError /\ NothingRecorded

\* C2 amended: a DISPATCH of an existing OUT tank and a RECEIPT of an existing
\* IN tank fail, nothing is recorded and the status stays; the failure is a
\* ConflictError when the date is not in the future and the SMT number is five
\* digits after trimming, and a ValidationError otherwise.  (SpecInputs)
C2_ForbiddenTransitionFails ==
    ForbiddenTransition =>
        /\ NothingRecorded
        /\ IF call.args.movement_date <= today /\ SmtValid(call.args.smt_number)
           THEN call.err \in ConflictError
           ELSE call.err \in ValidationError

\* a dispatch identical to the tank's last recorded one has just failed with
\* ConflictError
C2_Witness ==
    /\ ForbiddenTransition
    /\ call.args.movement_type = "dispatch"
    /\ call.err = "AlreadyOut"
    /\ \E m \in MostRecent(movements, call.args.serial) :
          /\ m.movement_type = "dispatch"
          /\ m.movement_date = call.args.movement_date
          /\ m.project = call.args.project
          /\ m.responsible_engineer = call.args.engineer
          /\ m.responsible_contractor = call.args.contractor
          /\ m.smt_number = call.args.smt_number

----------------------------------------------------------------------------
(* C3 *)

\* C3: a call of create_movement that fails, for whatever reason, leaves the
\* tanks (status and last_movement_date) and the movements exactly as they
\* were before the call.  (SpecInputs)
C3_FailedCallChangesNothing ==
    (Called /\ call.err # "") => NothingRecorded

\* a dispatch of a tank that is IN has just failed for its missing fields,
\* after earlier movements of that tank were recorded
C3_Witness ==
    /\ CalledOnTank
    /\ call.err = "MissingDispatchFields"
    /\ PreStatus = "in"
    /\ MovementsOf(movements, call.args.serial) # {}

----------------------------------------------------------------------------
(* C4 *)

\* C4: the ledger never holds two dispatches of one tank with no receipt of
\* that tank recorded between them, also when two sessions call
\* create_movement at the same time.  (SpecConc)
C4_NoDoubleDispatch ==
    \A d1 \in movements, d2 \in movements :
        (/\ d1.serial = d2.serial
         /\ d1.movement_type = "dispatch"
         /\ d2.movement_type = "dispatch"
         /\ d1.id < d2.id)
        => \E r \in movements :
              /\ r.serial = d1.serial
              /\ r.movement_type = "receipt"
              /\ d1.id < r.id
              /\ r.id < d2.id

----------------------------------------------------------------------------
(* C5 *)

\* a call of recompute_tank_states_from_history has just returned
Recomputed == pc = "returned" /\ call.op = "recompute"

\* C5: when recompute_tank_states_from_history is called twice in a row, the
\* second call returns 0 and changes no tank.  (SpecDrift)
C5_SecondRecomputeReturnsZero ==
    (Recomputed /\ call.prev[1] = "recompute")
        => call.updated = 0 /\ tanks = call.pre_tanks

\* the second of two calls in a row has returned, the first having repaired
\* both tanks
C5_Witness ==
    /\ Recomputed
    /\ call.prev = <<"recompute", 2>>
    /\ call.updated = 0

----------------------------------------------------------------------------
(* C6 *)

\* C6: after recompute_tank_states_from_history, a tank with a movement has
\* the status (OUT for a DISPATCH, IN otherwise) and the date of its most
\* recent movement, whatever it held before; a tank with no movement is as it
\* was; the result is the number of tanks whose status or date changed.
\* (SpecDrift)
C6_RecomputeFollowsHistory ==
    Recomputed =>
        /\ \A s \in DOMAIN tanks :
              IF MostRecent(movements, s) = {}
              THEN tanks[s] = call.pre_tanks[s]
              ELSE \A m \in MostRecent(movements, s) :
                      /\ tanks[s].status =
                            (IF m.movement_type = "dispatch" THEN "out" ELSE "in")
                      /\ tanks[s].last_movement_date = m.movement_date
        /\ call.updated =
              Cardinality({s \in DOMAIN tanks :
                  \/ tanks[s].status # call.pre_tanks[s].status
                  \/ tanks[s].last_movement_date
                        # call.pre_tanks[s].last_movement_date})
        /\ movements = call.pre_movements

\* one call repaired a tank whose most recent movement by date is not its
\* last inserted one, and left alone an OUT tank that has no movement
C6_Witness ==
    /\ Recomputed
    /\ call.updated = 1
    /\ \E s \in DOMAIN tanks :
          /\ tanks[s] # call.pre_tanks[s]
          /\ \E m \in MostRecent(movements, s), o \in movements :
                o.serial = s /\ o.id > m.id
    /\ \E s \in DOMAIN tanks :
          /\ MovementsOf(movements, s) = {}
          /\ tanks[s].status = "out"

----------------------------------------------------------------------------
(* C7 *)

\* C7: a successful create_movement sets the tank's status to OUT for a
\* DISPATCH and IN for a RECEIPT, sets its last_movement_date to the given
\* date, and adds exactly one movement, of that serial, type and date, whose
\* id is greater than every earlier id; that movement is the result.  (Spec)
C7_SuccessEffects ==
    (Called /\ call.err = "") =>
        /\ tanks[call.args.serial].status =
              (IF call.args.movement_type = "dispatch" THEN "out" ELSE "in")
        /\ call.args.movement_type \in {"dispatch", "receipt"}
        /\ tanks[call.args.serial].last_movement_date = call.args.movement_date
        /\ call.pre_movements \subseteq movements
        /\ Cardinality(movements \ call.pre_movements) = 1
        /\ \A m \in movements \ call.pre_movements :
              /\ m.serial = call.args.serial
              /\ m.movement_type = call.args.movement_type
              /\ m.movement_date = call.args.movement_date
              /\ \A o \in call.pre_movements : o.id < m.id
              /\ call.result = {m}

\* a receipt dated before the tank's dispatch has just succeeded
C7_Witness ==
    /\ Called
    /\ call.err = ""
    /\ call.args.movement_type = "receipt"
    /\ call.pre_tanks[call.args.serial].last_movement_date
          > call.args.movement_date
    /\ tanks[call.args.serial].status = "in"

----------------------------------------------------------------------------
(* C8 *)

\* the call named an existing tank, a date not in the future and a five-digit
\* SMT number
CalledWithValidDateAndSmt ==
    /\ CalledOnTank
    /\ call.args.movement_date <= today
    /\ SmtValid(call.args.smt_number)

Absent(s) == s = None \/ Len(s) = 0

\* C8: a DISPATCH of an existing IN tank with a valid date and SMT number
\* fails with ValidationError when project, engineer or contractor is missing
\* or empty, so every stored DISPATCH has all three non-empty; a RECEIPT of an
\* existing OUT tank with a valid date and SMT number succeeds, also with all
\* three absent, and the tank becomes IN.  (SpecInputs)
C8_DispatchFieldsRequired ==
    /\ (/\ CalledWithValidDateAndSmt
        /\ call.args.movement_type = "dispatch"
        /\ PreStatus = "in"
        /\ (\/ Absent(call.args.project)
            \/ Absent(call.args.engineer)
            \/ Absent(call.args.contractor)))
       => call.err \in ValidationError
    /\ \A m \in movements :
          m.movement_type = "dispatch" =>
             /\ ~Absent(m.project)
             /\ ~Absent(m.responsible_engineer)
             /\ ~Absent(m.responsible_contractor)
    /\ (/\ CalledWithValidDateAndSmt
        /\ call.args.movement_type = "receipt"
        /\ PreStatus = "out")
       => call.err = "" /\ tanks[call.args.serial].status = "in"

\* a receipt with no project, engineer or contractor has just succeeded on an
\* OUT tank
C8_Witness ==
    /\ CalledWithValidDateAndSmt
    /\ call.args.movement_type = "receipt"
    /\ PreStatus = "out"
    /\ call.args.project = None
    /\ call.args.engineer = None
    /\ call.args.contractor = None
    /\ call.err = ""
    /\ tanks[call.args.serial].status = "in"

----------------------------------------------------------------------------
(* C9 *)

\* C9: create_movement on an existing tank with a date after today fails
\* with ValidationError, whatever the type and the tank's status; so every
\* stored movement's movement_date is at most the day it was recorded on.
\* (Spec)
C9_NoFutureDate ==
    /\ (CalledOnTank /\ call.args.movement_date > today)
          => call.err \in ValidationError /\ NothingRecorded
    /\ \A m \in movements : m.movement_date <= m.created_at

\* a receipt of an OUT tank dated tomorrow has just failed, after a movement
\* dated before the day it was recorded on
C9_Witness ==
    /\ CalledOnTank
    /\ call.args.movement_date > today
    /\ call.args.movement_type = "receipt"
    /\ PreStatus = "out"
    /\ call.err = "FutureDate"
    /\ \E m \in movements : m.movement_date < m.created_at

----------------------------------------------------------------------------
(* C10 *)

\* exactly five decimal digits
FiveDigits(s) == s \in [1..5 -> Digits]

\* s without its leading and trailing blanks
Trimmed(s) ==
    IF \A i \in 1..Len(s) : s[i] = " " THEN <<>>
    ELSE LET first == CHOOSE i \in 1..Len(s) :
                         s[i] # " " /\ \A j \in 1..(i - 1) : s[j] = " "
             last == CHOOSE i \in 1..Len(s) :
                         s[i] # " " /\ \A j \in (i + 1)..Len(s) : s[j] = " "
         IN  [i \in 1..(last - first + 1) |-> s[first + i - 1]]

\* C10: for both types, create_movement succeeds only if smt_number, trimmed,
\* is exactly five digits; on an existing tank "1234", "abcde", "123456", ""
\* and None fail with ValidationError and "00123" passes the check; every
\* stored movement's smt_number is five digits, in its trimmed form.
\* (SpecInputs)
C10_SmtFiveDigits ==
    /\ (Called /\ call.err = "") =>
          /\ call.args.smt_number # None
          /\ FiveDigits(Trimmed(call.args.smt_number))
          /\ \A m \in call.result : m.smt_number = Trimmed(call.args.smt_number)
    /\ (CalledOnTank
        /\ call.args.smt_number \in {Smt1234, SmtAbcde, Smt123456, <<>>, None})
          => call.err \in ValidationError
    /\ (CalledOnTank /\ call.args.smt_number = Smt00123)
          => call.err # "BadSmt"
    /\ (CalledWithValidDateAndSmt
        /\ call.args.smt_number = Smt00123
        /\ call.args.movement_type = "receipt"
        /\ PreStatus = "out")
          => call.err = ""
    /\ \A m \in movements : FiveDigits(m.smt_number)

\* a receipt whose smt_number had blanks around five digits has just been
\* stored with the blanks removed, after a dispatch with smt_number "00123"
C10_Witness ==
    /\ Called
    /\ call.err = ""
    /\ call.args.movement_type = "receipt"
    /\ call.args.smt_number = SmtPadded
    /\ \E m \in call.result : m.smt_number = Smt00123
    /\ \E m \in call.pre_movements : m.movement_type = "dispatch"

----------------------------------------------------------------------------
(* C11 *)

\* summary_current_out_by_engineer has returned
Summarised == pc = "returned" /\ call.op = "summary_current_out_by_engineer"

\* the engineer a movement is counted under: the placeholder when the
\* engineer is null or empty
CountedUnder(m) ==
    IF m.responsible_engineer = None \/ m.responsible_engineer = <<>>
    THEN NoEngineer
    ELSE m.responsible_engineer

\* the tanks that were OUT when the call started and whose most recent
\* movement was a DISPATCH counted under engineer e
OutWith(e) ==
    {s \in DOMAIN call.pre_tanks :
        /\ call.pre_tanks[s].status = "out"
        /\ \E m \in MostRecent(call.pre_movements, s) :
              m.movement_type = "dispatch" /\ CountedUnder(m) = e}

\* C11: summary_current_out_by_engineer returns one pair per engineer that has
\* a tank which is OUT and whose most recent movement (date descending, then
\* id descending) is a DISPATCH under that engineer (the placeholder when the
\* engineer is null or empty), with the number of such tanks; engineers with
\* no such tank do not appear; the pairs are sorted by count descending, then
\* by engineer name ascending.  (SpecOps)
C11_SummaryCountsAndOrder ==
    Summarised =>
        /\ \A e \in {CountedUnder(m) : m \in call.pre_movements} :
              OutWith(e) # {} =>
                 \E i \in DOMAIN call.rows :
                    call.rows[i].responsible_engineer = e
        /\ \A i \in DOMAIN call.rows :
              /\ call.rows[i].count = Cardinality(OutWith(call.rows[i].responsible_engineer))
              /\ call.rows[i].count > 0
        /\ \A i \in DOMAIN call.rows, j \in DOMAIN call.rows :
              i < j =>
                 /\ call.rows[i].responsible_engineer # call.rows[j].responsible_engineer
                 /\ \/ call.rows[i].count > call.rows[j].count
                    \/ /\ call.rows[i].count = call.rows[j].count
                       /\ StrLess(call.rows[i].responsible_engineer,
                                  call.rows[j].responsible_engineer)

\* two tanks OUT via dispatches by Jane and one by Bob: the call returned
\* [("Jane", 2), ("Bob", 1)]
C11_Witness ==
    /\ Summarised
    /\ call.rows = <<[responsible_engineer |-> Jane, count |-> 2],
                     [responsible_engineer |-> Bob, count |-> 1]>>

----------------------------------------------------------------------------
(* C12 *)

\* seed_tanks has returned
Seeded == pc = "returned" /\ call.op = "seed_tanks"

\* C12: after seed_tanks(serials) a tank exists for every given serial; a
\* serial that had no tank has one with status IN and no last_movement_date;
\* every tank that existed keeps its status and last_movement_date; no other
\* tank appears; no movement is changed; and a second call in a row with the
\* same serials changes nothing.  (SpecOps)
C12_SeedIdempotent ==
    Seeded =>
        /\ DOMAIN tanks = DOMAIN call.pre_tanks \cup call.serials
        /\ \A s \in call.serials \ DOMAIN call.pre_tanks :
              tanks[s] = [status |-> "in", last_movement_date |-> NoDate]
        /\ \A s \in DOMAIN call.pre_tanks : tanks[s] = call.pre_tanks[s]
        /\ movements = call.pre_movements
        /\ call.prev[1] = "seed_tanks" => tanks = call.pre_tanks

\* the application re-seeds all its serials a second time in a row while T1 is
\* OUT: T1 is still OUT, and the T3 that seeding added is IN
C12_Witness ==
    /\ Seeded
    /\ call.prev[1] = "seed_tanks"
    /\ call.serials = {"T1", "T2", "T3"}
    /\ tanks["T1"].status = "out"
    /\ tanks["T3"] = [status |-> "in", last_movement_date |-> NoDate]
    /\ movements # {}

----------------------------------------------------------------------------
(* C13 *)

\* the operations that only read
ReadOps == {"get_all_tanks", "get_movements", "summary_current_out_by_engineer"}

\* C13: no operation changes or removes a movement that existed when it
\* started, and a movement it adds has a new id; create_movement for serial s
\* leaves every other tank as it was and adds or removes no tank; recompute
\* and seed_tanks add no movement; get_all_tanks, get_movements and the summary
\* change neither tanks nor movements.  (SpecOps)
C13_AppendOnlyAndFrames ==
    pc = "returned" =>
        /\ call.pre_movements \subseteq movements
        /\ \A m \in movements \ call.pre_movements :
              \A o \in call.pre_movements : o.id # m.id
        /\ call.op = "create_movement" =>
              /\ DOMAIN tanks = DOMAIN call.pre_tanks
              /\ \A s \in DOMAIN tanks \ {call.args.serial} :
                    tanks[s] = call.pre_tanks[s]
        /\ call.op \in {"recompute", "seed_tanks"} =>
              movements = call.pre_movements
        /\ call.op \in ReadOps =>
              tanks = call.pre_tanks /\ movements = call.pre_movements

\* a receipt of T1 was recorded while T1 had its dispatch on record and T2 was
\* OUT
C13_Witness ==
    /\ Called
    /\ call.err = ""
    /\ call.args.serial = "T1"
    /\ call.args.movement_type = "receipt"
    /\ \E m \in call.pre_movements : m.serial = "T1"
    /\ call.pre_tanks["T2"].status = "out"
    /\ movements # call.pre_movements

----------------------------------------------------------------------------
(* C14 *)

\* the movement of a tank recorded last: the one with the highest id (a set
\* of 0 or 1 rows)
Newest(movs, serial) ==
    {m \in movs :
        /\ m.serial = serial
        /\ \A o \in movs : o.serial = serial => o.id <= m.id}

\* the stored tables hold both effects of every recorded movement: a tank
\* without movements is as seeded, and any other tank has the status and the
\* date its newest movement gave it
BothEffectsStored ==
    \A s \in DOMAIN tanks :
        /\ Newest(movements, s) = {} =>
              tanks[s] = [status |-> "in", last_movement_date |-> NoDate]
        /\ \A m \in Newest(movements, s) :
              /\ tanks[s].status = "out" <=> m.movement_type = "dispatch"
              /\ tanks[s].last_movement_date = m.movement_date

\* the summary is running or has returned
SummaryRead ==
    /\ pc \in {"reading", "returned"}
    /\ call.op = "summary_current_out_by_engineer"

\* C14 as stated: the tables never hold one effect of a movement without the
\* other, and no reader observes one without the other: every movement row
\* the summary has read was stored when it read the tank statuses.  (SpecRead)
C14_ReadersSeeBothOrNeither ==
    /\ BothEffectsStored
    /\ SummaryRead => call.result \subseteq call.pre_movements

\* C14 amended: the tables never hold one effect of a movement without the
\* other, so each single query reads both or neither; the summary reads the
\* statuses first and each OUT tank's most recent movement later, and a row it
\* has read is the most recent movement its tank had when the statuses were
\* read or one that was committed since.  (SpecRead)
C14_EachQuerySeesBothOrNeither ==
    /\ BothEffectsStored
    /\ SummaryRead =>
          \A m \in call.result :
             /\ call.pre_tanks[m.serial].status = "out"
             /\ m \in movements
             /\ \/ m \in MostRecent(call.pre_movements, m.serial)
                \/ m \notin call.pre_movements

\* the summary returned after it read T1 as OUT and then, as T1's most recent
\* movement, a receipt that was committed in between; T1 is not counted
C14_Witness ==
    /\ Summarised
    /\ call.pre_tanks["T1"].status = "out"
    /\ \E m \in call.result :
          /\ m.serial = "T1"
          /\ m.movement_type = "receipt"
          /\ m \notin call.pre_movements
    /\ call.rows = <<>>

----------------------------------------------------------------------------
(* C15 *)

\* C15: in every state reached from the seeded tanks by create_movement calls
\* alone, recompute_tank_states_from_history would return 0 and change no
\* tank: every tank already has the status and the date derived from its most
\* recent movement by date descending, then id descending.  (Spec)
C15_RecomputeFindsNothingToRepair ==
    /\ Cardinality(RecomputeChanged(tanks, movements)) = 0
    /\ RecomputeTanks(tanks, movements) = tanks

----------------------------------------------------------------------------
(* C16 *)

\* the sum of the counts of a summary
RECURSIVE SumOfCounts(_)
SumOfCounts(rows) ==
    IF rows = <<>> THEN 0 ELSE Head(rows).count + SumOfCounts(Tail(rows))

\* C16: in every state reached from the seeded tanks by create_movement calls,
\* no tank is OUT while its most recent movement (date descending, then id
\* descending) is not a DISPATCH, and the counts the summary would return add
\* up to the number of OUT tanks.  (Spec)
C16_SummaryDropsNoOutTank ==
    /\ \A s \in DOMAIN tanks :
          tanks[s].status = "out" =>
             \E m \in MostRecent(movements, s) : m.movement_type = "dispatch"
    /\ SumOfCounts(SummaryRows(OutTanks(tanks),
                               LastOfEach(OutTanks(tanks), movements)))
          = Cardinality({s \in DOMAIN tanks : tanks[s].status = "out"})

----------------------------------------------------------------------------
(* C17 *)

\* the movements of a tank with the given type
OfType(serial, type) ==
    {m \in movements : m.serial = serial /\ m.movement_type = type}

\* C17: with create_movement calls made one after the other, the movements of
\* each tank in increasing id order alternate DISPATCH, RECEIPT, DISPATCH, ...
\* starting with a DISPATCH; the tank is OUT exactly when it has one more
\* DISPATCH than RECEIPT and IN exactly when it has as many; and its
\* last_movement_date is the movement_date of its highest-id movement.  (Spec)
C17_AlternationInIdOrder ==
    \A s \in DOMAIN tanks :
        LET dispatches == Cardinality(OfType(s, "dispatch"))
            receipts == Cardinality(OfType(s, "receipt"))
        IN  /\ \A m \in movements :
                  m.serial = s =>
                     LET before == {o \in movements :
                                       o.serial = s /\ o.id < m.id}
                     IN  IF Cardinality(before) % 2 = 0
                         THEN m.movement_type = "dispatch"
                         ELSE m.movement_type = "receipt"
            /\ tanks[s].status = "out" <=> dispatches = receipts + 1
            /\ tanks[s].status = "in" <=> dispatches = receipts
            /\ \A m \in Newest(movements, s) :
                  tanks[s].last_movement_date = m.movement_date

\* T1 has a dispatch, a receipt and a back-dated dispatch on record: it is OUT
\* with the date of the third, which is earlier than the date of the second
C17_Witness ==
    /\ Called
    /\ call.err = ""
    /\ Cardinality(OfType("T1", "dispatch")) = 2
    /\ Cardinality(OfType("T1", "receipt")) = 1
    /\ tanks["T1"].status = "out"
    /\ \E m \in movements : m.movement_date > tanks["T1"].last_movement_date

----------------------------------------------------------------------------
(* C18 *)

\* create_movement of the given type on tank s, with a date that is not in
\* the future, a five-digit SMT number and all three dispatch fields, would be
\* accepted in the current state
Accepted(s, type, d) ==
    Raises(GetTank(tanks, s),
           CallArgs(s, type, d, Atlas, Jane, ACME, Smt00123), today) = ""

\* C18: in every reachable state every tank is IN or OUT and, with the other
\* inputs valid, DISPATCH is accepted exactly when the tank is IN and RECEIPT
\* exactly when it is OUT, so exactly one of the two is accepted; and every
\* call made with valid inputs on an existing tank succeeded exactly in those
\* cases.  (Spec)
C18_ExactlyOneTypeAccepted ==
    /\ \A s \in DOMAIN tanks :
          /\ tanks[s].status \in {"in", "out"}
          /\ \A d \in 0..today :
                /\ Accepted(s, "dispatch", d) <=> tanks[s].status = "in"
                /\ Accepted(s, "receipt", d) <=> tanks[s].status = "out"
    /\ ( /\ CalledWithValidDateAndSmt
         /\ call.args.movement_type \in {"dispatch", "receipt"}
         /\ ~Absent(call.args.project)
         /\ ~Absent(call.args.engineer)
         /\ ~Absent(call.args.contractor) )
       => /\ call.args.movement_type = "dispatch" =>
                (call.err = "" <=> PreStatus = "in")
          /\ call.args.movement_type = "receipt" =>
                (call.err = "" <=> PreStatus = "out")

\* a tank that was dispatched and received has been dispatched again, and its
\* receipt would now be accepted
C18_Witness ==
    /\ Called
    /\ call.err = ""
    /\ call.args.movement_type = "dispatch"
    /\ \E m \in call.pre_movements :
          m.serial = call.args.serial /\ m.movement_type = "receipt"
    /\ Accepted(call.args.serial, "receipt", today)

----------------------------------------------------------------------------
(* C19 *)

\* the first precondition, in the order of the specification, that the call
\* which has returned did not meet; "" when it met them all
FirstFailure ==
    LET a == call.args IN
    IF a.serial \notin DOMAIN call.pre_tanks THEN "NotFound"
    ELSE IF a.movement_date > today THEN "FutureDate"
    ELSE IF a.smt_number = None \/ ~FiveDigits(Trimmed(a.smt_number))
         THEN "BadSmt"
    ELSE IF a.movement_type \notin {"dispatch", "receipt"} THEN "InvalidType"
    ELSE IF ForbiddenTransition THEN "Conflict"
    ELSE IF /\ a.movement_type = "dispatch"
            /\ Absent(a.project) \/ Absent(a.engineer) \/ Absent(a.contractor)
         THEN "MissingDispatchFields"
    ELSE ""

\* C19: create_movement reports the first precondition that fails, in the
\* order: unknown serial (NotFoundError), future date (ValidationError),
\* malformed SMT number (ValidationError), state conflict (ConflictError),
\* missing dispatch fields (ValidationError); an unrecognised type is a
\* ValidationError reported only when the serial, date and SMT checks pass;
\* and the call succeeds when none fails.  (SpecInputs)
C19_FirstFailingCheckIsReported ==
    Called =>
        /\ FirstFailure = "NotFound" => call.err \in NotFoundError
        /\ FirstFailure = "Conflict" => call.err \in ConflictError
        /\ FirstFailure \in {"FutureDate", "BadSmt", "InvalidType",
                             "MissingDispatchFields"}
              => call.err = FirstFailure /\ call.err \in ValidationError
        /\ FirstFailure = "" => call.err = ""

\* a dispatch of an OUT tank without a project, with a valid date and SMT
\* number, failed with ConflictError
C19_Witness ==
    /\ CalledWithValidDateAndSmt
    /\ call.args.movement_type = "dispatch"
    /\ PreStatus = "out"
    /\ Absent(call.args.project)
    /\ call.err \in ConflictError

====
